---- MODULE Spec2Model ----
(***************************************************************************)
(* weather.py: a command-line pipeline that geocodes a city name, fetches  *)
(* the forecast for the coordinates found and renders two panels.          *)
(*                                                                         *)
(* Conventions of the model                                                *)
(*   - JSON objects are TLA+ records whose DOMAIN is the set of keys the   *)
(*     object carries; a missing key is a key outside the DOMAIN.          *)
(*   - Python's None is the record None.                                   *)
(*   - Latitudes and longitudes are in hundredths of a degree,             *)
(*     temperatures, speeds and precipitation in tenths, wind directions   *)
(*     in quarters of a degree (so that 11.25 degrees is the integer 45).  *)
(*   - Text outside ASCII is written by its code points: "U+2600 U+FE0F"   *)
(*     is the sun emoji, "degC" stands for U+00B0 followed by C.           *)
(*   - A function that prints, sends requests, returns or raises is an     *)
(*     operator giving [tag, value, exc, out, sent]: what it returned or   *)
(*     raised, what it printed and which requests it sent.                 *)
(***************************************************************************)
EXTENDS Integers, Sequences, FiniteSets, TLC

VARIABLES
    pc,             \* position in main(): parse, geocode, fetch,
                    \* display_current, display_forecast, exited
    city_name,      \* main: city_name
    use_fahrenheit, \* main: use_fahrenheit
    location,       \* main: location (None until geocode_city returned one)
    weather,        \* main: weather (None until fetch_weather returned one)
    http_log,       \* every requests.get issued so far, in order
    console,        \* everything printed so far, in order
    raised,         \* the exception that ended main(), "none" if it returned,
                    \* "" while the process runs
    exit_code,      \* <<>> while the process runs, <<n>> once it exited with n
    weather_codes,  \* the module-level dict WEATHER_CODES
    call            \* a direct call of one formatting helper: inputs and result

vars == <<pc, city_name, use_fahrenheit, location, weather, http_log, console,
          raised, exit_code, weather_codes, call>>

-----------------------------------------------------------------------------
(* Bounds of the model *)

\* a JSON reply lacks at most this many of the keys the code reads
MaxMissing == 1
\* a geocoding reply lists at most this many results (the request asks for 5)
MaxResults == 2
\* a forecast reply carries at most this many days (the request asks for 5)
MaxDays == 2
\* weather codes looked up directly range over -MaxCode .. MaxCode
MaxCode == 100
\* wind directions formatted directly range over -MaxDirection .. MaxDirection
\* quarter degrees (1500 quarter degrees = 375 degrees)
MaxDirection == 1500

-----------------------------------------------------------------------------
(* Python values *)

None == [none |-> TRUE]

Restrict(f, K) == [k \in K |-> f[k]]

\* dict.get(key, default)
Get(d, key, default) == IF key \in DOMAIN d THEN d[key] ELSE default

RECURSIVE JoinWith(_, _)
\* sep.join(parts)
JoinWith(sep, parts) ==
    IF parts = <<>> THEN ""
    ELSE IF Len(parts) = 1 THEN parts[1]
    ELSE parts[1] \o sep \o JoinWith(sep, Tail(parts))

\* the subsets of Keys that lack at most MaxMissing of them
KeySubsets(Keys) == {K \in SUBSET Keys : Cardinality(Keys \ K) <= MaxMissing}

\* the sequences over S of length 0 .. n
SeqUpTo(S, n) == UNION {[1..k -> S] : k \in 0..n}

Return(v, out, sent) ==
    [tag |-> "return", value |-> v, exc |-> "none", out |-> out, sent |-> sent]

Raise(e, out, sent) ==
    [tag |-> "raise", value |-> None, exc |-> e, out |-> out, sent |-> sent]

-----------------------------------------------------------------------------
(* Module-level data *)

GEOCODING_URL == "https://geocoding-api.open-meteo.com/v1/search"
WEATHER_URL == "https://api.open-meteo.com/v1/forecast"

\* code -> <<description, icon>>; Python's [0] is [1] here, [1] is [2]
WEATHER_CODES ==
       0 :> <<"Clear sky", "U+2600 U+FE0F">>
    @@ 1 :> <<"Mainly clear", "U+1F324 U+FE0F">>
    @@ 2 :> <<"Partly cloudy", "U+26C5">>
    @@ 3 :> <<"Overcast", "U+2601 U+FE0F">>
    @@ 45 :> <<"Fog", "U+1F32B U+FE0F">>
    @@ 48 :> <<"Depositing rime fog", "U+1F32B U+FE0F">>
    @@ 51 :> <<"Light drizzle", "U+1F326 U+FE0F">>
    @@ 53 :> <<"Moderate drizzle", "U+1F326 U+FE0F">>
    @@ 55 :> <<"Dense drizzle", "U+1F327 U+FE0F">>
    @@ 56 :> <<"Light freezing drizzle", "U+1F327 U+FE0F">>
    @@ 57 :> <<"Dense freezing drizzle", "U+1F327 U+FE0F">>
    @@ 61 :> <<"Slight rain", "U+1F327 U+FE0F">>
    @@ 63 :> <<"Moderate rain", "U+1F327 U+FE0F">>
    @@ 65 :> <<"Heavy rain", "U+1F327 U+FE0F">>
    @@ 66 :> <<"Light freezing rain", "U+1F327 U+FE0F">>
    @@ 67 :> <<"Heavy freezing rain", "U+1F327 U+FE0F">>
    @@ 71 :> <<"Slight snowfall", "U+2744 U+FE0F">>
    @@ 73 :> <<"Moderate snowfall", "U+2744 U+FE0F">>
    @@ 75 :> <<"Heavy snowfall", "U+2744 U+FE0F">>
    @@ 77 :> <<"Snow grains", "U+2744 U+FE0F">>
    @@ 80 :> <<"Slight rain showers", "U+1F326 U+FE0F">>
    @@ 81 :> <<"Moderate rain showers", "U+1F326 U+FE0F">>
    @@ 82 :> <<"Violent rain showers", "U+1F327 U+FE0F">>
    @@ 85 :> <<"Slight snow showers", "U+2744 U+FE0F">>
    @@ 86 :> <<"Heavy snow showers", "U+2744 U+FE0F">>
    @@ 95 :> <<"Thunderstorm", "U+26C8 U+FE0F">>
    @@ 96 :> <<"Thunderstorm with slight hail", "U+26C8 U+FE0F">>
    @@ 99 :> <<"Thunderstorm with heavy hail", "U+26C8 U+FE0F">>

\* Python's index i is index i + 1 here
CARDINAL_DIRECTIONS ==
    << "N", "NNE", "NE", "ENE", "E", "ESE", "SE", "SSE",
       "S", "SSW", "SW", "WSW", "W", "WNW", "NW", "NNW" >>

-----------------------------------------------------------------------------
(* Formatting helpers *)

\* a variant that tests the code's truth value before the membership
get_weather_icon_falsy_zero(code) ==
    IF code # 0 /\ code \in DOMAIN weather_codes
    THEN weather_codes[code][2] ELSE "U+1F321 U+FE0F"

get_weather_icon(code) ==
    IF code \in DOMAIN weather_codes THEN weather_codes[code][2] ELSE "U+1F321 U+FE0F"

get_weather_description(code) ==
    IF code \in DOMAIN weather_codes THEN weather_codes[code][1] ELSE "Unknown"

\* f"{temp:.1f}{unit}": the number to one decimal, then the unit
format_temperature(temp, fahrenheit) ==
    [value |-> temp, unit |-> IF fahrenheit THEN "degF" ELSE "degC"]

\* 22.5 degrees, the width of one compass sector, in quarter degrees
SectorWidth == 90

\* a variant rounding a tie away from zero
RoundHalfAwayFromZero(n, d) ==
    LET q == n \div d
        r == n % d
    IN  IF 2 * r < d THEN q
        ELSE IF 2 * r > d THEN q + 1
        ELSE IF n >= 0 THEN q + 1 ELSE q

\* Python's round(n / d) for d > 0: to the nearest integer, a tie to the even one
RoundHalfEven(n, d) ==
    LET q == n \div d
        r == n % d
    IN  IF 2 * r < d THEN q
        ELSE IF 2 * r > d THEN q + 1
        ELSE IF q % 2 = 0 THEN q ELSE q + 1

\* round(direction_degrees / 22.5) % 16
CardinalIndex(direction_degrees) ==
    RoundHalfEven(direction_degrees, SectorWidth) % 16

\* f"{speed:.1f} {unit} {cardinal}"
format_wind(speed, direction_degrees, fahrenheit) ==
    [value |-> speed,
     unit |-> IF fahrenheit THEN "mph" ELSE "km/h",
     cardinal |-> CARDINAL_DIRECTIONS[CardinalIndex(direction_degrees) + 1]]

\* An ISO date-time that datetime.fromisoformat parses is [hour, minute] (with
\* its date); any other string is [text]. The result is the 12-hour clock time,
\* or the input unchanged when parsing fails.
format_time(iso_str) ==
    IF "hour" \in DOMAIN iso_str
    THEN [hour |-> IF iso_str.hour % 12 = 0 THEN 12 ELSE iso_str.hour % 12,
          minute |-> iso_str.minute,
          ampm |-> IF iso_str.hour < 12 THEN "AM" ELSE "PM"]
    ELSE iso_str

-----------------------------------------------------------------------------
(* What the network can answer to one requests.get *)

\* requests.RequestException and the subclasses raised here
RequestException == {"ConnectionError", "Timeout", "HTTPError"}

\* requests.get raised exc; or it returned a response with this status, whose
\* body parses to data
TransportFault(exc) == [exc |-> exc, status |-> 0, data |-> None]
HttpReply(status, data) == [exc |-> "none", status |-> status, data |-> data]

RepliesWith(Bodies) ==
    {TransportFault(e) : e \in {"ConnectionError", "Timeout", "KeyboardInterrupt"}}
    \cup {HttpReply(s, None) : s \in {404, 500}}
    \cup {HttpReply(200, b) : b \in Bodies}

GeoFields == {"name", "latitude", "longitude", "country", "admin1"}

GeoMatches ==
    { [name |-> "Springfield", latitude |-> 3978, longitude |-> -8965,
       country |-> "United States", admin1 |-> "Illinois"],
      [name |-> "London", latitude |-> 5151, longitude |-> -13,
       country |-> "United Kingdom", admin1 |-> "England"] }

Min(a, b) == IF a <= b THEN a ELSE b

\* the results the geocoding service can list: a match, lacking some fields
GeoResults(fields) == {Restrict(m, K) : m \in GeoMatches, K \in KeySubsets(fields)}

\* the geocoding service's bodies: no "results" key, or a list of at most
\* count results
GeoBodies(count) ==
    {[generationtime_ms |-> 1]}
    \cup {[generationtime_ms |-> 1, results |-> rs] :
              rs \in SeqUpTo(GeoResults(GeoFields), Min(count, MaxResults))}

\* what the network can answer to a geocoding request
GeoReplies(request) == RepliesWith(GeoBodies(request.params.count))

CurrentFields ==
    {"temperature_2m", "relative_humidity_2m", "apparent_temperature",
     "weather_code", "wind_speed_10m", "wind_direction_10m"}

DailyFields ==
    {"time", "temperature_2m_max", "temperature_2m_min", "weather_code",
     "precipitation_sum", "sunrise", "sunset"}

ForecastDates == <<"2024-03-10", "2024-03-11", "2024-03-12", "2024-03-13", "2024-03-14">>
ForecastDayCodes == <<3, 61, 0, 4, 95>>

FullCurrent(code, direction) ==
    [temperature_2m |-> 215, relative_humidity_2m |-> 60,
     apparent_temperature |-> 204, weather_code |-> code,
     wind_speed_10m |-> 123, wind_direction_10m |-> direction]

FullDaily(n) ==
    [time |-> [i \in 1..n |-> ForecastDates[i]],
     temperature_2m_max |-> [i \in 1..n |-> 220 + i],
     temperature_2m_min |-> [i \in 1..n |-> 110 - i],
     weather_code |-> [i \in 1..n |-> ForecastDayCodes[i]],
     precipitation_sum |-> [i \in 1..n |-> 5 * (i - 1)],
     sunrise |-> [i \in 1..n |-> IF i = 2 THEN [text |-> "not-a-date"]
                                  ELSE [date |-> ForecastDates[i], hour |-> 6, minute |-> 45]],
     sunset |-> [i \in 1..n |-> [date |-> ForecastDates[i], hour |-> 18, minute |-> 5]]]

\* the keys a forecast body can lack: an object as a whole (<<"current", "">>)
\* or one field of an object
ForecastPaths ==
    {<<"current", "">>, <<"daily", "">>}
    \cup {<<"current", k>> : k \in CurrentFields}
    \cup {<<"daily", k>> : k \in DailyFields}

Without(full, P) ==
    [o \in {"current", "daily"} \ {p[1] : p \in {q \in P : q[2] = ""}} |->
        Restrict(full[o], DOMAIN full[o] \ {p[2] : p \in {q \in P : q[1] = o}})]

\* the forecast service's bodies: current conditions and at most days days,
\* lacking some keys
ForecastBodies(days) ==
    { Without([current |-> FullCurrent(code, direction), daily |-> FullDaily(n)], P) :
        code \in {0, 4}, direction \in {45, 1440}, n \in 0..Min(days, MaxDays),
        P \in {Q \in SUBSET ForecastPaths : Cardinality(Q) <= MaxMissing} }

\* what the network can answer to a forecast request
ForecastReplies(request) == RepliesWith(ForecastBodies(request.params.forecast_days))

-----------------------------------------------------------------------------
(* API functions *)

GeocodingRequest(name) ==
    [url |-> GEOCODING_URL, params |-> [name |-> name, count |-> 5], timeout |-> 10]

\* a variant whose name defaults to the empty string
LocationFromNoNameDefault(result, name) ==
    [name |-> Get(result, "name", ""),
     latitude |-> result.latitude,
     longitude |-> result.longitude,
     country |-> Get(result, "country", ""),
     admin1 |-> Get(result, "admin1", "")]

\* the dict geocode_city builds from one result
LocationFrom(result, name) ==
    [name |-> Get(result, "name", name),
     latitude |-> result.latitude,
     longitude |-> result.longitude,
     country |-> Get(result, "country", ""),
     admin1 |-> Get(result, "admin1", "")]

\* a variant that answers a failed request with a location of its own
geocode_city_with_fallback(name, reply) ==
    LET sent == <<GeocodingRequest(name)>>
        failed == Return([name |-> name, latitude |-> 0, longitude |-> 0,
                          country |-> "", admin1 |-> ""],
                         <<[kind |-> "geocoding_error"]>>, sent)
    IN  IF reply.exc \in RequestException THEN failed
        ELSE IF reply.exc # "none" THEN Raise(reply.exc, <<>>, sent)
        ELSE IF reply.status >= 400 THEN failed
        ELSE LET data == reply.data IN
             IF "results" \notin DOMAIN data \/ data.results = <<>>
             THEN Return(None, <<>>, sent)
             ELSE LET result == data.results[1] IN
                  IF "latitude" \notin DOMAIN result \/ "longitude" \notin DOMAIN result
                  THEN Raise("KeyError", <<>>, sent)
                  ELSE Return(LocationFrom(result, name), <<>>, sent)

\* reply is what the network answers to the one request geocode_city sends
geocode_city(name, reply) ==
    LET sent == <<GeocodingRequest(name)>>
        failed == Return(None, <<[kind |-> "geocoding_error"]>>, sent)
    IN  IF reply.exc \in RequestException THEN failed
        ELSE IF reply.exc # "none" THEN Raise(reply.exc, <<>>, sent)
        ELSE IF reply.status >= 400 THEN failed          \* raise_for_status
        ELSE LET data == reply.data IN
             IF "results" \notin DOMAIN data \/ data.results = <<>>
             THEN Return(None, <<>>, sent)
             ELSE LET result == data.results[1] IN
                  IF "latitude" \notin DOMAIN result \/ "longitude" \notin DOMAIN result
                  THEN Raise("KeyError", <<>>, sent)
                  ELSE Return(LocationFrom(result, name), <<>>, sent)

\* a variant that asks for Fahrenheit but leaves the wind speed unit out
ForecastParamsTemperatureOnly(lat, lon, fahrenheit) ==
    LET params ==
            [latitude |-> lat,
             longitude |-> lon,
             current |-> JoinWith(",", <<"temperature_2m", "relative_humidity_2m",
                                         "apparent_temperature", "weather_code",
                                         "wind_speed_10m", "wind_direction_10m">>),
             daily |-> JoinWith(",", <<"temperature_2m_max", "temperature_2m_min",
                                       "weather_code", "precipitation_sum",
                                       "sunrise", "sunset">>),
             timezone |-> "auto",
             forecast_days |-> 5]
    IN  IF fahrenheit
        THEN [temperature_unit |-> "fahrenheit"] @@ params
        ELSE params

ForecastParams(lat, lon, fahrenheit) ==
    LET params ==
            [latitude |-> lat,
             longitude |-> lon,
             current |-> JoinWith(",", <<"temperature_2m", "relative_humidity_2m",
                                         "apparent_temperature", "weather_code",
                                         "wind_speed_10m", "wind_direction_10m">>),
             daily |-> JoinWith(",", <<"temperature_2m_max", "temperature_2m_min",
                                       "weather_code", "precipitation_sum",
                                       "sunrise", "sunset">>),
             timezone |-> "auto",
             forecast_days |-> 5]
    IN  IF fahrenheit
        THEN [temperature_unit |-> "fahrenheit", wind_speed_unit |-> "mph"] @@ params
        ELSE params

ForecastRequest(lat, lon, fahrenheit) ==
    [url |-> WEATHER_URL, params |-> ForecastParams(lat, lon, fahrenheit), timeout |-> 10]

\* a variant that sends the request a second time when the first one fails
fetch_weather_retrying(lat, lon, fahrenheit, reply) ==
    LET request == ForecastRequest(lat, lon, fahrenheit)
        failed == Return(None, <<[kind |-> "fetch_error"]>>, <<request, request>>)
    IN  IF reply.exc \in RequestException THEN failed
        ELSE IF reply.exc # "none" THEN Raise(reply.exc, <<>>, <<request>>)
        ELSE IF reply.status >= 400 THEN failed
        ELSE Return(reply.data, <<>>, <<request>>)

\* a variant that answers a failed request with a payload of its own
fetch_weather_with_fallback(lat, lon, fahrenheit, reply) ==
    LET sent == <<ForecastRequest(lat, lon, fahrenheit)>>
        failed == Return([current |-> FullCurrent(0, 0), daily |-> FullDaily(0)],
                         <<[kind |-> "fetch_error"]>>, sent)
    IN  IF reply.exc \in RequestException THEN failed
        ELSE IF reply.exc # "none" THEN Raise(reply.exc, <<>>, sent)
        ELSE IF reply.status >= 400 THEN failed
        ELSE Return(reply.data, <<>>, sent)

\* reply is what the network answers to the one request fetch_weather sends
fetch_weather(lat, lon, fahrenheit, reply) ==
    LET sent == <<ForecastRequest(lat, lon, fahrenheit)>>
        failed == Return(None, <<[kind |-> "fetch_error"]>>, sent)
    IN  IF reply.exc \in RequestException THEN failed
        ELSE IF reply.exc # "none" THEN Raise(reply.exc, <<>>, sent)
        ELSE IF reply.status >= 400 THEN failed           \* raise_for_status
        ELSE Return(reply.data, <<>>, sent)

-----------------------------------------------------------------------------
(* Display functions *)

\* datetime.fromisoformat(date_str).strftime("%a %m/%d") on the dates of the
\* forecast replies
FormattedDate(date_str) ==
    CASE date_str = "2024-03-10" -> "Sun 03/10"
      [] date_str = "2024-03-11" -> "Mon 03/11"
      [] date_str = "2024-03-12" -> "Tue 03/12"
      [] date_str = "2024-03-13" -> "Wed 03/13"
      [] date_str = "2024-03-14" -> "Thu 03/14"

\* prints one panel, or raises KeyError at the first key the payload lacks
display_current_weather(loc, w, fahrenheit) ==
    IF "current" \notin DOMAIN w THEN Raise("KeyError", <<>>, <<>>)
    ELSE LET current == w.current
             code == Get(current, "weather_code", 0)
             icon == get_weather_icon(code)
             description == get_weather_description(code)
             location_parts ==
                 <<loc.name>>
                 \o (IF Get(loc, "admin1", "") # "" THEN <<loc.admin1>> ELSE <<>>)
                 \o (IF Get(loc, "country", "") # "" THEN <<loc.country>> ELSE <<>>)
             title == JoinWith(", ", location_parts)
         IN  IF ~ ({"temperature_2m", "apparent_temperature", "relative_humidity_2m",
                    "wind_speed_10m", "wind_direction_10m"} \subseteq DOMAIN current)
             THEN Raise("KeyError", <<>>, <<>>)
             ELSE Return(None,
                    <<[kind |-> "current_panel",
                       title |-> "Current Weather: " \o title,
                       temperature |-> format_temperature(current.temperature_2m, fahrenheit),
                       feels_like |-> format_temperature(current.apparent_temperature, fahrenheit),
                       humidity |-> current.relative_humidity_2m,
                       wind |-> format_wind(current.wind_speed_10m,
                                            current.wind_direction_10m, fahrenheit),
                       icon |-> icon,
                       conditions |-> <<icon, description>>]>>,
                    <<>>)

\* prints one panel of one row per entry of daily["time"], or raises KeyError
\* at the first key the payload lacks; the per-day keys are read only inside
\* the loop
display_forecast(w, fahrenheit) ==
    IF "daily" \notin DOMAIN w THEN Raise("KeyError", <<>>, <<>>)
    ELSE LET daily == w.daily IN
         IF "time" \notin DOMAIN daily THEN Raise("KeyError", <<>>, <<>>)
         ELSE IF Len(daily.time) > 0
                 /\ ~ ({"weather_code", "temperature_2m_max", "temperature_2m_min",
                        "precipitation_sum", "sunrise", "sunset"} \subseteq DOMAIN daily)
         THEN Raise("KeyError", <<>>, <<>>)
         ELSE Return(None,
                <<[kind |-> "forecast_panel",
                   title |-> "5-Day Forecast",
                   rows |-> [i \in 1..Len(daily.time) |->
                       [date |-> FormattedDate(daily.time[i]),
                        conditions |-> <<get_weather_icon(daily.weather_code[i]),
                                         get_weather_description(daily.weather_code[i])>>,
                        high |-> format_temperature(daily.temperature_2m_max[i], fahrenheit),
                        low |-> format_temperature(daily.temperature_2m_min[i], fahrenheit),
                        precip |-> [value |-> daily.precipitation_sum[i], unit |-> "mm"],
                        sunrise |-> format_time(daily.sunrise[i]),
                        sunset |-> format_time(daily.sunset[i])]]]>>,
                <<>>)

-----------------------------------------------------------------------------
(* The process: main() under the handlers of the __main__ block *)

\* a variant whose interrupt handler exits with the error code
TopLevelInterruptIsError(exc) ==
    CASE exc = "none" -> [out |-> <<>>, code |-> 0]
      [] exc = "KeyboardInterrupt" -> [out |-> <<[kind |-> "cancelled"]>>, code |-> 1]
      [] exc = "ConnectionError" -> [out |-> <<[kind |-> "no_internet"]>>, code |-> 1]
      [] OTHER -> [out |-> <<[kind |-> "traceback", exc |-> exc]>>, code |-> 1]

\* what the __main__ block does with an exception main() raised ("none": main
\* returned): what it prints and the exit code. An exception no handler
\* names ends the interpreter with a traceback and exit code 1.
TopLevel(exc) ==
    CASE exc = "none" -> [out |-> <<>>, code |-> 0]
      [] exc = "KeyboardInterrupt" -> [out |-> <<[kind |-> "cancelled"]>>, code |-> 0]
      [] exc = "ConnectionError" -> [out |-> <<[kind |-> "no_internet"]>>, code |-> 1]
      [] OTHER -> [out |-> <<[kind |-> "traceback", exc |-> exc]>>, code |-> 1]

EndProcess(printed, exc, code) ==
    /\ pc' = "exited"
    /\ console' = console \o printed
    /\ raised' = exc
    /\ exit_code' = <<code>>

\* main() raised exc, or returned
MainEnds(printed, exc) ==
    EndProcess(printed \o TopLevel(exc).out, exc, TopLevel(exc).code)

\* sys.exit(code): SystemExit passes both handlers
SysExit(printed, code) == EndProcess(printed, "SystemExit", code)

\* the requests a call sent, each with how the network answered it
Exchanges(sent, reply) ==
    [i \in 1..Len(sent) |->
        [request |-> sent[i], exc |-> reply.exc, status |-> reply.status]]

ArgCities == {<<"Springfield">>, <<"New", "York">>}

\* argv as argparse reads it
Argvs ==
    {[city |-> c, fahrenheit |-> f, version |-> FALSE] : c \in ArgCities, f \in BOOLEAN}
    \cup {[city |-> <<>>, fahrenheit |-> f, version |-> FALSE] : f \in BOOLEAN}
    \cup {[city |-> <<>>, fahrenheit |-> FALSE, version |-> TRUE]}

NotCalled == [fn |-> "none"]

Init ==
    /\ pc = "parse"
    /\ city_name = ""
    /\ use_fahrenheit = FALSE
    /\ location = None
    /\ weather = None
    /\ http_log = <<>>
    /\ console = <<>>
    /\ raised = ""
    /\ exit_code = <<>>
    /\ weather_codes = WEATHER_CODES
    /\ call = NotCalled

\* main, to the banner: parse_arguments, the joined city name, the first print
ParseArguments ==
    /\ pc = "parse"
    /\ \E argv \in Argvs :
        IF argv.version
        THEN /\ SysExit(<<[kind |-> "version"]>>, 0)
             /\ UNCHANGED <<city_name, use_fahrenheit>>
        ELSE IF argv.city = <<>>
        THEN /\ SysExit(<<[kind |-> "usage_error"]>>, 2)
             /\ UNCHANGED <<city_name, use_fahrenheit>>
        ELSE /\ city_name' = JoinWith(" ", argv.city)
             /\ use_fahrenheit' = argv.fahrenheit
             /\ console' = Append(console, [kind |-> "fetching", city |-> JoinWith(" ", argv.city)])
             /\ pc' = "geocode"
             /\ UNCHANGED <<raised, exit_code>>
    /\ UNCHANGED <<location, weather, http_log, weather_codes, call>>

\* main: location = geocode_city(city_name) and the check that follows
GeocodeStep ==
    /\ pc = "geocode"
    /\ \E reply \in GeoReplies(GeocodingRequest(city_name)) :
        LET r == geocode_city(city_name, reply) IN
        /\ http_log' = http_log \o Exchanges(r.sent, reply)
        /\ IF r.tag = "raise"
           THEN MainEnds(r.out, r.exc) /\ UNCHANGED location
           ELSE IF r.value = None
           THEN /\ SysExit(r.out \o <<[kind |-> "city_not_found", city |-> city_name]>>, 1)
                /\ UNCHANGED location
           ELSE /\ location' = r.value
                /\ pc' = "fetch"
                /\ console' = console \o r.out
                /\ UNCHANGED <<raised, exit_code>>
    /\ UNCHANGED <<city_name, use_fahrenheit, weather, weather_codes, call>>

\* main: weather = fetch_weather(...) and the check that follows
FetchStep ==
    /\ pc = "fetch"
    /\ \E reply \in ForecastReplies(ForecastRequest(location.latitude, location.longitude,
                                                     use_fahrenheit)) :
        LET r == fetch_weather(location.latitude, location.longitude, use_fahrenheit, reply) IN
        /\ http_log' = http_log \o Exchanges(r.sent, reply)
        /\ IF r.tag = "raise"
           THEN MainEnds(r.out, r.exc) /\ UNCHANGED weather
           ELSE IF r.value = None
           THEN /\ SysExit(r.out \o <<[kind |-> "weather_unavailable"]>>, 1)
                /\ UNCHANGED weather
           ELSE /\ weather' = r.value
                /\ pc' = "display_current"
                /\ console' = console \o r.out
                /\ UNCHANGED <<raised, exit_code>>
    /\ UNCHANGED <<city_name, use_fahrenheit, location, weather_codes, call>>

\* main: display_current_weather(...) and the blank line after it; the user
\* may interrupt before the panel is printed
DisplayCurrentStep ==
    /\ pc = "display_current"
    /\ \E interrupted \in BOOLEAN :
        LET r == display_current_weather(location, weather, use_fahrenheit) IN
        IF interrupted THEN MainEnds(<<>>, "KeyboardInterrupt")
        ELSE IF r.tag = "raise" THEN MainEnds(r.out, r.exc)
        ELSE /\ console' = console \o r.out \o <<[kind |-> "blank"]>>
             /\ pc' = "display_forecast"
             /\ UNCHANGED <<raised, exit_code>>
    /\ UNCHANGED <<city_name, use_fahrenheit, location, weather, http_log,
                   weather_codes, call>>

\* main: display_forecast(...), the blank line after it, and the return
DisplayForecastStep ==
    /\ pc = "display_forecast"
    /\ \E interrupted \in BOOLEAN :
        LET r == display_forecast(weather, use_fahrenheit) IN
        IF interrupted THEN MainEnds(<<>>, "KeyboardInterrupt")
        ELSE IF r.tag = "raise" THEN MainEnds(r.out, r.exc)
        ELSE MainEnds(r.out \o <<[kind |-> "blank"]>>, "none")
    /\ UNCHANGED <<city_name, use_fahrenheit, location, weather, http_log,
                   weather_codes, call>>

Next ==
    \/ ParseArguments
    \/ GeocodeStep
    \/ FetchStep
    \/ DisplayCurrentStep
    \/ DisplayForecastStep

Spec == Init /\ [][Next]_vars

-----------------------------------------------------------------------------
(* The helpers called directly, with weather.py imported as a module: the    *)
(* inputs are drawn by the initial state, the one action applies the helper. *)

Imported ==
    /\ pc = "imported"
    /\ city_name = ""
    /\ use_fahrenheit = FALSE
    /\ location = None
    /\ weather = None
    /\ http_log = <<>>
    /\ console = <<>>
    /\ raised = ""
    /\ exit_code = <<>>
    /\ weather_codes = WEATHER_CODES

InitCodes ==
    /\ Imported
    /\ call \in {[fn |-> "describe", code |-> c, done |-> FALSE] : c \in (0 - MaxCode)..MaxCode}

\* get_weather_description(code) and get_weather_icon(code)
DescribeCall ==
    /\ call.fn = "describe" /\ ~ call.done
    /\ call' = [fn |-> "describe", code |-> call.code, done |-> TRUE,
                description |-> get_weather_description(call.code),
                icon |-> get_weather_icon(call.code)]
    /\ UNCHANGED <<pc, city_name, use_fahrenheit, location, weather, http_log,
                   console, raised, exit_code, weather_codes>>

SpecCodes == InitCodes /\ [][DescribeCall]_vars

InitWind ==
    /\ Imported
    /\ call \in {[fn |-> "format_wind", speed |-> 123, direction |-> d,
                  fahrenheit |-> f, done |-> FALSE] :
                    d \in (0 - MaxDirection)..MaxDirection, f \in BOOLEAN}

\* format_wind(s, d, u) and format_wind(s, d + 360, u)
FormatWindCall ==
    /\ call.fn = "format_wind" /\ ~ call.done
    /\ call' = [fn |-> "format_wind", speed |-> call.speed, direction |-> call.direction,
                fahrenheit |-> call.fahrenheit, done |-> TRUE,
                result |-> format_wind(call.speed, call.direction, call.fahrenheit),
                turned |-> format_wind(call.speed, call.direction + 16 * SectorWidth,
                                       call.fahrenheit)]
    /\ UNCHANGED <<pc, city_name, use_fahrenheit, location, weather, http_log,
                   console, raised, exit_code, weather_codes>>

SpecWind == InitWind /\ [][FormatWindCall]_vars

InitGeocode ==
    /\ Imported
    /\ call \in {[fn |-> "geocode_city", name |-> JoinWith(" ", c), reply |-> r,
                  done |-> FALSE] :
                    c \in ArgCities, r \in GeoReplies(GeocodingRequest("Springfield"))}

\* geocode_city(name) against one reply of the network
GeocodeCall ==
    /\ call.fn = "geocode_city" /\ ~ call.done
    /\ call' = [fn |-> "geocode_city", name |-> call.name, reply |-> call.reply,
                done |-> TRUE, result |-> geocode_city(call.name, call.reply)]
    /\ UNCHANGED <<pc, city_name, use_fahrenheit, location, weather, http_log,
                   console, raised, exit_code, weather_codes>>

SpecGeocode == InitGeocode /\ [][GeocodeCall]_vars

-----------------------------------------------------------------------------
(* Vocabulary of the properties *)

GeoExchanges == SelectSeq(http_log, LAMBDA e : e.request.url = GEOCODING_URL)
ForecastExchanges == SelectSeq(http_log, LAMBDA e : e.request.url = WEATHER_URL)

\* the request was answered, with a success status
Completed(e) == e.exc = "none" /\ e.status < 400

Printed(kind) == \E i \in DOMAIN console : console[i].kind = kind

PanelPrinted == Printed("current_panel") \/ Printed("forecast_panel")

Interrupted == raised = "KeyboardInterrupt"

\* the geocoding stage ran and gave no location, the user not having interrupted it
GeocodingFailed == pc = "exited" /\ GeoExchanges # <<>> /\ location = None /\ ~ Interrupted

\* the forecast stage ran and gave no payload, the user not having interrupted it
FetchFailed == pc = "exited" /\ ForecastExchanges # <<>> /\ weather = None /\ ~ Interrupted

\* the run printed what it was asked for
Succeeded ==
    \/ Printed("current_panel") /\ Printed("forecast_panel")
    \/ Printed("version")

-----------------------------------------------------------------------------
(* C1: a forecast request is issued only after a geocoding request that was
   answered successfully and gave a location, never after a geocoding failure
   (no results, a network error, an error status), and it carries that
   location's latitude and longitude. *)
C1_ForecastOnlyAfterGeocoding ==
    \A i \in DOMAIN http_log :
        http_log[i].request.url = WEATHER_URL =>
            /\ location # None
            /\ \E j \in 1..(i - 1) :
                   /\ http_log[j].request.url = GEOCODING_URL
                   /\ Completed(http_log[j])
            /\ http_log[i].request.params.latitude = location.latitude
            /\ http_log[i].request.params.longitude = location.longitude

C1_Witness ==
    /\ ForecastExchanges # <<>>
    /\ location # None
    /\ location.latitude = 3978

(* C2: a panel is printed only once geocoding and fetching have both
   succeeded; a run in which either stage fails ends with neither panel
   printed. *)
C2_NoPartialOutput ==
    /\ PanelPrinted =>
           /\ location # None
           /\ weather # None
           /\ \E i \in DOMAIN http_log :
                  http_log[i].request.url = GEOCODING_URL /\ Completed(http_log[i])
           /\ \E i \in DOMAIN http_log :
                  http_log[i].request.url = WEATHER_URL /\ Completed(http_log[i])
    /\ (GeocodingFailed \/ FetchFailed) => ~ PanelPrinted

C2_Witness ==
    /\ FetchFailed
    /\ location # None
    /\ Printed("weather_unavailable")
    /\ ~ PanelPrinted

(* C3: the exit code is 0 exactly when the run succeeded or the user
   interrupted it (during either network call or later); a geocoding failure,
   a fetch failure and a connection error reaching the outermost handler all
   end with exit code 1. *)
C3_ExitCodes ==
    pc = "exited" =>
        /\ exit_code = <<0>> <=> (Succeeded \/ Interrupted)
        /\ Interrupted => exit_code = <<0>>
        /\ (GeocodingFailed \/ FetchFailed) => exit_code = <<1>>
        /\ raised = "ConnectionError" => exit_code = <<1>>

C3_Witness ==
    /\ pc = "exited"
    /\ Interrupted
    /\ ForecastExchanges # <<>>
    /\ weather = None
    /\ exit_code = <<0>>

(* C4: a run whose geocoding request could not be completed (a connection
   failure, a timeout, an error status such as 500) does not end as the
   city-not-found outcome that names the city. *)
C4_NetworkErrorIsNotCityNotFound ==
    (/\ pc = "exited"
     /\ \E i \in DOMAIN http_log :
            http_log[i].request.url = GEOCODING_URL /\ ~ Completed(http_log[i]))
        => ~ Printed("city_not_found")

(* C5: a reply whose body lacks a field the code reads never ends the run
   with an unhandled KeyError: it is reported as a network error. *)
C5_MissingFieldIsNotAFault ==
    raised # "KeyError"

(* C6: at most one request goes to the geocoding endpoint and at most one to
   the forecast endpoint; a request that failed is the last one of the run,
   and a run without a location sends no forecast request. *)
C6_NoRetries ==
    /\ Len(GeoExchanges) <= 1
    /\ Len(ForecastExchanges) <= 1
    /\ \A i \in DOMAIN http_log :
           ~ Completed(http_log[i]) => (i = Len(http_log) /\ pc = "exited")
    /\ location = None => ForecastExchanges = <<>>

C6_Witness ==
    /\ pc = "exited"
    /\ Len(http_log) = 2
    /\ http_log[2].request.url = WEATHER_URL
    /\ http_log[2].status = 500

(* C7: the forecast request carries temperature_unit=fahrenheit and
   wind_speed_unit=mph exactly when Fahrenheit was selected, both or neither;
   every temperature and wind suffix printed is that of the selected unit
   system, and precipitation is printed in mm under both. *)
C7_UnitsConsistent ==
    /\ \A i \in DOMAIN http_log :
           http_log[i].request.url = WEATHER_URL =>
               LET params == http_log[i].request.params IN
               /\ "temperature_unit" \in DOMAIN params <=> use_fahrenheit
               /\ "wind_speed_unit" \in DOMAIN params <=> use_fahrenheit
               /\ use_fahrenheit => /\ params.temperature_unit = "fahrenheit"
                                    /\ params.wind_speed_unit = "mph"
    /\ \A i \in DOMAIN console :
           /\ console[i].kind = "current_panel" =>
                  /\ console[i].temperature.unit = IF use_fahrenheit THEN "degF" ELSE "degC"
                  /\ console[i].feels_like.unit = IF use_fahrenheit THEN "degF" ELSE "degC"
                  /\ console[i].wind.unit = IF use_fahrenheit THEN "mph" ELSE "km/h"
           /\ console[i].kind = "forecast_panel" =>
                  \A d \in DOMAIN console[i].rows :
                      /\ console[i].rows[d].high.unit = IF use_fahrenheit THEN "degF" ELSE "degC"
                      /\ console[i].rows[d].low.unit = IF use_fahrenheit THEN "degF" ELSE "degC"
                      /\ console[i].rows[d].precip.unit = "mm"

C7_Witness ==
    /\ use_fahrenheit
    /\ ForecastExchanges # <<>>
    /\ Printed("current_panel")
    /\ \E i \in DOMAIN console :
           console[i].kind = "forecast_panel" /\ Len(console[i].rows) > 0

(* C8: for a reply whose results array is not empty and whose first result
   carries its coordinates, geocode_city returns the location of the first
   result, whatever the later results are: country and admin1 are "" when
   absent, name is the place name asked for when absent. For a reply with an
   empty or absent results array it returns None and raises nothing. *)
C8_FirstResultWithDefaults ==
    (call.fn = "geocode_city" /\ call.done /\ Completed(call.reply)) =>
        LET data == call.reply.data IN
        IF "results" \notin DOMAIN data \/ data.results = <<>>
        THEN call.result.tag = "return" /\ call.result.value = None
        ELSE LET first == data.results[1] IN
             {"latitude", "longitude"} \subseteq DOMAIN first =>
                 /\ call.result.tag = "return"
                 /\ call.result.value =
                        [name |-> IF "name" \in DOMAIN first THEN first.name ELSE call.name,
                         latitude |-> first.latitude,
                         longitude |-> first.longitude,
                         country |-> IF "country" \in DOMAIN first THEN first.country ELSE "",
                         admin1 |-> IF "admin1" \in DOMAIN first THEN first.admin1 ELSE ""]

C8_Witness ==
    /\ call.fn = "geocode_city" /\ call.done /\ Completed(call.reply)
    /\ "results" \in DOMAIN call.reply.data
    /\ Len(call.reply.data.results) = 2
    /\ DOMAIN call.reply.data.results[1] = GeoFields \ {"name"}
    /\ DOMAIN call.reply.data.results[2] = GeoFields
    /\ call.reply.data.results[2].latitude # call.reply.data.results[1].latitude
    /\ call.result.tag = "return"
    /\ call.result.value.name = call.name
    /\ call.result.value.latitude = call.reply.data.results[1].latitude

\* the 28 codes the specification lists
DefinedCodes ==
    {0, 1, 2, 3, 45, 48, 51, 53, 55, 56, 57, 61, 63, 65, 66, 67, 71, 73, 75, 77,
     80, 81, 82, 85, 86, 95, 96, 99}

(* C9: the table holds exactly the 28 listed codes and no lookup changes it;
   for a listed code the description and the icon returned are those of that
   code's entry, for any other integer they are "Unknown" and the thermometer
   icon. *)
C9_LookupTotal ==
    /\ weather_codes = WEATHER_CODES
    /\ DOMAIN weather_codes = DefinedCodes
    /\ Cardinality(DOMAIN weather_codes) = 28
    /\ (call.fn = "describe" /\ call.done) =>
           IF call.code \in DefinedCodes
           THEN <<call.description, call.icon>> = WEATHER_CODES[call.code]
           ELSE <<call.description, call.icon>> = <<"Unknown", "U+1F321 U+FE0F">>

C9_Witness ==
    /\ call.fn = "describe" /\ call.done
    /\ call.code = 0
    /\ call.description = "Clear sky"
    /\ call.icon = "U+2600 U+FE0F"

(* C10: format_wind(s, d, u) and format_wind(s, d + 360, u) give the same
   cardinal label, for negative d and for d on a half-sector boundary too;
   0 and 360 give N, 90 E, 180 S, 270 W. *)
C10_WindPeriodic ==
    (call.fn = "format_wind" /\ call.done) =>
        /\ call.result.cardinal = call.turned.cardinal
        /\ call.direction \in {0, 16 * SectorWidth} => call.result.cardinal = "N"
        /\ call.direction = 4 * SectorWidth => call.result.cardinal = "E"
        /\ call.direction = 8 * SectorWidth => call.result.cardinal = "S"
        /\ call.direction = 12 * SectorWidth => call.result.cardinal = "W"

C10_Witness ==
    /\ call.fn = "format_wind" /\ call.done
    /\ call.direction = 0 - 45
    /\ call.result.cardinal = "N"
    /\ call.turned.cardinal = "N"

====
